---- MODULE Spec2Model ----
(***************************************************************************)
(* A model of pv::data::DecoderStack (src/pv/data/decoderstack.cpp): the   *)
(* decoder stack, begin_decode with its cancel/join/clear/setup/spawn, the *)
(* decode thread (decode_proc, decode_data, wait_for_data, the annotation  *)
(* callback) and the slots on_data_received / on_frame_ended.              *)
(*                                                                         *)
(* The callers of the public methods and slots run on one thread (the Qt   *)
(* main thread): mainPc is its position.  Decode threads are pc[t].        *)
(* The capture (segments, capture state) and the decode engine             *)
(* (libsigrokdecode) are the environment: their outcomes are chosen        *)
(* nondeterministically.                                                   *)
(***************************************************************************)
EXTENDS Integers, Sequences, FiniteSets, TLC

\* ------------------------------------------------------------ bounds
\* Largest sample count a segment grows to.
MaxSamples == 3
\* DecoderStack::DecodeChunkLength (10 MiB in the source), scaled down so
\* that a segment of MaxSamples samples takes several chunks.
DecodeChunkLength == 2
\* Longest decoder stack.
MaxStack == 2
\* Number of thread slots (the code keeps one std::thread handle; a second
\* slot exists so that two live threads can be told apart from one).
NumThreads == 2
\* Number of segment objects alive at once (the one the capture appends to
\* and the one the stack still references).
NumSegments == 2
\* Annotations the engine emits in one run, at most.
MaxAnnotations == 2
\* DecoderStack::DecodeNotifyPeriod (1024 in the source), scaled down so
\* that a run stores annotations between two periodic notifications.
DecodeNotifyPeriod == 2

ThreadIds == 1..NumThreads
\* the decode thread of another DecoderStack of the process
PeerThread == NumThreads + 1
AllThreads == ThreadIds \cup {PeerThread}
SegIds == 1..NumSegments
\* unit sizes (bytes per sample) of a logic segment
UnitSizes == {1, 2}

Min(a, b) == IF a < b THEN a ELSE b

\* ------------------------------------------------------------ decoders
\* srd_decoder objects.  "A" is a decoder of logic channels, one of them
\* required, and declares no annotation_rows; "B" is a decoder stacked on
\* another one's output: it has no channels, declares two annotation rows,
\* one holding class 0 and one holding class 2, and also a class 1 that is
\* in no row.
DecoderTypes == {"A", "B"}

\* decc->annotation_rows: the sequence of rows, each the set of its classes
AnnotationRows(decc) == IF decc = "A" THEN <<>> ELSE << {0}, {2} >>

\* the annotation classes of the decoders
Classes == 0..2

\* the annotation classes the instances of the decoder emit in the runs
\* that are looked at
AnnotationClasses(decc) == IF decc = "A" THEN {0} ELSE {0, 1}

\* A decode::Decoder of the stack: its srd_decoder, the answer of
\* have_required_channels(), whether its first channel is bound to a
\* signal with logic data, and the answer of shown().  "A" has no channel
\* bound, or only an optional one, or all of them.  A new Decoder is shown.
Decoders ==
    {[dec |-> "A", req |-> FALSE, chan |-> FALSE, shown |-> TRUE],
     [dec |-> "A", req |-> FALSE, chan |-> TRUE, shown |-> TRUE],
     [dec |-> "A", req |-> TRUE, chan |-> TRUE, shown |-> TRUE],
     [dec |-> "B", req |-> TRUE, chan |-> FALSE, shown |-> TRUE]}

\* the decoders that are pushed on top of the constructor's one
StackedDecoders == {d \in Decoders : d.dec = "B"}

\* Row(decc) is <<decc, 0>>, Row(decc, ann_row) is <<decc, r>> for the r-th row
Row(decc, r) == <<decc, r>>

ErrNone == ""
ErrChannels == "One or more required channels have not been specified"
ErrCreate == "Failed to create decoder instance"
ErrFeed == "Decoder reported an error"

EmptyMap == [x \in {} |-> <<>>]

VARIABLES
    stack_,              \* list of decode::Decoder
    segments,            \* Logic::logic_segments(): deque of segment ids
    seg_count,           \* LogicSegment::get_sample_count() of each segment
    unit_size,           \* LogicSegment::unit_size(), the same for every segment
    frame_open,          \* the capture is inside a frame (samples may arrive)
    capture_state,       \* Session::get_capture_state()
    segment_,            \* 0 (null) or a segment id
    sample_count_,
    frame_complete_,
    interrupt_,
    samples_decoded_,
    error_message_,
    annotation_count_,
    rows_,               \* map Row -> sequence of annotations (RowData)
    class_rows_,         \* map <<decc, class>> -> Row
    decode_thread_,      \* 0 (not joinable) or the thread id of the handle
    global_srd_mutex_,   \* 0 (free) or the thread holding it
    mainPc,              \* position of the main thread
    pc,                  \* position of each decode thread, the peer's too
    sample_count,        \* decode_proc's local optional<int64_t> sample_count
    abs_start_samplenum, \* decode_proc's local
    i,                   \* decode_data's loop variable
    chunk_end,           \* decode_data's local
    di_next,             \* decode_proc: position of the create loop in stack_
    insts,               \* engine: decoder instances of the thread's session
    session,             \* engine: "none", "open" or "destroyed" per thread
    feeds,               \* engine: the srd_session_send calls of the session
    initial_count,       \* the sample count decode_proc read at its start
    notified             \* frontend: the number of stored annotations at the
                         \* thread's last new_annotations() signal

shared == <<segment_, sample_count_, frame_complete_, interrupt_,
            samples_decoded_, error_message_, annotation_count_, rows_,
            class_rows_, decode_thread_, global_srd_mutex_>>
env == <<stack_, segments, seg_count, unit_size, frame_open, capture_state>>
locals == <<sample_count, abs_start_samplenum, i, chunk_end, di_next, insts,
            session, feeds, initial_count, notified>>
vars == <<env, shared, mainPc, pc, locals>>

\* ------------------------------------------------------------ Init
\* The constructor (lines 61-78) pushes one decoder, with no channel bound
\* yet; interrupt_ and annotation_count_ are not initialised by it.
Init ==
    /\ stack_ \in {<<d>> : d \in {x \in Decoders : ~x.chan}}
    /\ segments = <<>>
    /\ seg_count = [s \in SegIds |-> 0]
    /\ unit_size \in UnitSizes
    /\ frame_open = FALSE
    /\ capture_state = "Stopped"
    /\ segment_ = 0
    /\ sample_count_ = 0
    /\ frame_complete_ = FALSE
    /\ interrupt_ \in BOOLEAN
    /\ samples_decoded_ = 0
    /\ error_message_ = ErrNone
    /\ annotation_count_ \in {0, 1}
    /\ rows_ = EmptyMap
    /\ class_rows_ = EmptyMap
    /\ decode_thread_ = 0
    /\ global_srd_mutex_ = 0
    /\ mainPc = "idle"
    /\ pc = [t \in AllThreads |-> "none"]
    /\ sample_count = [t \in ThreadIds |-> 0]
    /\ abs_start_samplenum = [t \in ThreadIds |-> 0]
    /\ i = [t \in ThreadIds |-> 0]
    /\ chunk_end = [t \in ThreadIds |-> 0]
    /\ di_next = [t \in ThreadIds |-> 1]
    /\ insts = [t \in ThreadIds |-> <<>>]
    /\ session = [t \in ThreadIds |-> "none"]
    /\ feeds = [t \in ThreadIds |-> <<>>]
    /\ initial_count = [t \in ThreadIds |-> 0]
    /\ notified = [t \in ThreadIds |-> 0]

\* ------------------------------------------------------------ helpers
\* (mutant) the notification wakes no thread
NotifyOne_Lost(p) == {p}

\* input_cond_.notify_one(): one thread blocked in input_cond_.wait, if
\* there is any, leaves the wait (and re-evaluates the loop condition once
\* it has the input lock again); with no waiter the call does nothing.
NotifyOne(p) ==
    IF \E t \in ThreadIds : p[t] = "waiting"
    THEN {[p EXCEPT ![t] = "wait_eval"] : t \in {u \in ThreadIds : p[u] = "waiting"}}
    ELSE {p}

\* input_mutex_ is held by a decode thread from the evaluation of the wait
\* condition until it blocks in input_cond_.wait or returns.
InputMutexFree == \A t \in ThreadIds : pc[t] \notin {"wait_enter", "wait_ret"}

\* output_mutex_ is held by the caller's thread while it is inside
\* samples_decoded(), error_message(), get_annotation_subset() or
\* get_visible_rows(); the decode thread holds it only within one step
OutputMutexFree == mainPc # "reading"

\* (mutant) decode_proc does not wait for the engine lock
EngineLockFree_Always == TRUE

\* lock_guard<mutex> decode_lock(global_srd_mutex_) (line 345) gets the lock
\* when no thread holds it
EngineLockFree == global_srd_mutex_ = 0

\* (mutant) begin_decode never joins the previous thread
Joinable_Never == FALSE

\* decode_thread_.joinable()
Joinable == decode_thread_ # 0

\* (mutant) one row keyed by the decoder alone, whatever its row list
RowsOfDecoder_AlwaysAlone(decc) == {Row(decc, 0)}

\* the rows begin_decode creates for one decoder
RowsOfDecoder(decc) ==
    IF AnnotationRows(decc) = <<>>
    THEN {Row(decc, 0)}
    ELSE {Row(decc, r) : r \in DOMAIN AnnotationRows(decc)}

\* the classes begin_decode maps for one decoder
MappedClasses(decc) ==
    UNION {AnnotationRows(decc)[r] : r \in DOMAIN AnnotationRows(decc)}

\* class_rows_[(decc, c)] = row: the last row listing the class wins
ClassRowOf(decc, c) ==
    LET rs == {r \in DOMAIN AnnotationRows(decc) : c \in AnnotationRows(decc)[r]}
    IN Row(decc, CHOOSE r \in rs : \A q \in rs : q <= r)

\* begin_decode, "Add classes" (lines 213-240): rows_[row] = RowData()
BuildRows(old, stack) ==
    LET new == UNION {RowsOfDecoder(stack[k].dec) : k \in DOMAIN stack}
    IN [r \in (DOMAIN old) \cup new |-> IF r \in new THEN <<>> ELSE old[r]]

BuildClassRows(old, stack) ==
    LET new == {<<stack[k].dec, c>> : k \in DOMAIN stack, c \in Classes}
        keys == {key \in new : key[2] \in MappedClasses(key[1])}
    IN [key \in (DOMAIN old) \cup keys |->
            IF key \in keys THEN ClassRowOf(key[1], key[2]) ELSE old[key]]

\* (mutant) the check of the required channels is skipped
HaveRequiredChannels_Always(stack) == TRUE

\* lines 205-211: every decoder has its required channels
HaveRequiredChannels(stack) == \A k \in DOMAIN stack : stack[k].req

\* (mutant) a segment is taken whether or not a decoder has logic data
HaveSegment_IgnoreData(stack) == segments # <<>>

\* lines 245-262: logic data of the first channel of some decoder, and a
\* segment in it
HaveSegment(stack) ==
    /\ \E k \in DOMAIN stack : stack[k].chan
    /\ segments # <<>>

\* (mutant) clear() forgets rows_
clear_KeepRows ==
    [sample_count_ |-> 0, annotation_count_ |-> 0, frame_complete_ |-> FALSE,
     samples_decoded_ |-> 0, error_message_ |-> ErrNone,
     rows_ |-> rows_, class_rows_ |-> EmptyMap]

\* clear() (lines 184-193): the values it leaves
clear ==
    [sample_count_ |-> 0, annotation_count_ |-> 0, frame_complete_ |-> FALSE,
     samples_decoded_ |-> 0, error_message_ |-> ErrNone,
     rows_ |-> EmptyMap, class_rows_ |-> EmptyMap]

\* a segment that neither the logic data nor segment_ references is freed
Collect(segs, ref) ==
    [s \in SegIds |->
        IF s = ref \/ (\E k \in DOMAIN segs : segs[k] = s) THEN seg_count[s] ELSE 0]

\* the thread slot std::thread(...) starts
FreeThread(p) == CHOOSE t \in ThreadIds :
    p[t] = "none" /\ \A u \in ThreadIds : p[u] = "none" => t <= u

\* begin_decode from clear() on (lines 203-271).  p is pc and handle is
\* decode_thread_ after the join at its start.
Setup(p, handle) ==
    LET c == clear IN
    /\ sample_count_' = c.sample_count_
    /\ annotation_count_' = c.annotation_count_
    /\ frame_complete_' = c.frame_complete_
    /\ samples_decoded_' = c.samples_decoded_
    /\ mainPc' = "idle"
    /\ UNCHANGED <<global_srd_mutex_, stack_, segments, unit_size, frame_open,
                   capture_state>>
    /\ IF ~HaveRequiredChannels(stack_)
       THEN /\ error_message_' = ErrChannels
            /\ rows_' = c.rows_
            /\ class_rows_' = c.class_rows_
            /\ pc' = p
            /\ decode_thread_' = handle
            /\ UNCHANGED <<segment_, interrupt_>>
       ELSE /\ error_message_' = c.error_message_
            /\ rows_' = BuildRows(c.rows_, stack_)
            /\ class_rows_' = BuildClassRows(c.class_rows_, stack_)
            /\ IF ~HaveSegment(stack_)
               THEN /\ pc' = p
                    /\ decode_thread_' = handle
                    /\ UNCHANGED <<segment_, interrupt_>>
               ELSE /\ \E t \in ThreadIds : p[t] = "none"
                    /\ segment_' = Head(segments)
                    /\ interrupt_' = FALSE
                    /\ decode_thread_' = FreeThread(p)
                    /\ pc' = [p EXCEPT ![FreeThread(p)] = "start"]
    /\ seg_count' = Collect(segments, segment_')

\* the locals of a joined thread are gone
ForgetLocals(t) ==
    /\ sample_count' = [sample_count EXCEPT ![t] = 0]
    /\ abs_start_samplenum' = [abs_start_samplenum EXCEPT ![t] = 0]
    /\ i' = [i EXCEPT ![t] = 0]
    /\ chunk_end' = [chunk_end EXCEPT ![t] = 0]
    /\ di_next' = [di_next EXCEPT ![t] = 1]
    /\ insts' = [insts EXCEPT ![t] = <<>>]
    /\ session' = [session EXCEPT ![t] = "none"]
    /\ feeds' = [feeds EXCEPT ![t] = <<>>]
    /\ initial_count' = [initial_count EXCEPT ![t] = 0]
    /\ notified' = [notified EXCEPT ![t] = 0]

\* the locals of decode_proc and decode_data end with the thread, and the
\* engine's session with srd_session_destroy
ExitLocals(t) ==
    /\ sample_count' = [sample_count EXCEPT ![t] = 0]
    /\ abs_start_samplenum' = [abs_start_samplenum EXCEPT ![t] = 0]
    /\ i' = [i EXCEPT ![t] = 0]
    /\ chunk_end' = [chunk_end EXCEPT ![t] = 0]
    /\ di_next' = [di_next EXCEPT ![t] = 1]
    /\ insts' = [insts EXCEPT ![t] = <<>>]
    /\ feeds' = [feeds EXCEPT ![t] = <<>>]
    /\ initial_count' = [initial_count EXCEPT ![t] = 0]
    /\ session' = [session EXCEPT ![t] = "destroyed"]

\* interrupt_ = true; input_cond_.notify_one(); then the join blocks
Cancel(joinPc) ==
    /\ interrupt_' = TRUE
    /\ pc' \in NotifyOne(pc)
    /\ mainPc' = joinPc
    /\ UNCHANGED <<segment_, sample_count_, frame_complete_, samples_decoded_,
                   error_message_, annotation_count_, rows_, class_rows_,
                   decode_thread_, global_srd_mutex_>>
    /\ UNCHANGED <<env, locals>>

\* ------------------------------------------------------------ main thread
\* begin_decode (lines 195-272), up to the join when a thread is joinable,
\* the whole of it otherwise.
begin_decode ==
    /\ mainPc = "idle"
    /\ IF Joinable
       THEN Cancel("bd_join")
       ELSE /\ Setup(pc, decode_thread_)
            /\ UNCHANGED locals

\* decode_thread_.join() returns, and begin_decode goes on
begin_decode_joined ==
    /\ mainPc = "bd_join"
    /\ pc[decode_thread_] = "exited"
    /\ Setup([pc EXCEPT ![decode_thread_] = "none"], 0)
    /\ ForgetLocals(decode_thread_)

\* on_new_frame (lines 442-445)
on_new_frame == begin_decode

\* the members of a destroyed DecoderStack are gone
Destroyed ==
    /\ mainPc' = "destroyed"
    /\ segment_' = 0
    /\ sample_count_' = 0
    /\ frame_complete_' = FALSE
    /\ interrupt_' = FALSE
    /\ samples_decoded_' = 0
    /\ error_message_' = ErrNone
    /\ annotation_count_' = 0
    /\ rows_' = EmptyMap
    /\ class_rows_' = EmptyMap
    /\ decode_thread_' = 0
    /\ stack_' = <<>>
    /\ seg_count' = Collect(segments, 0)
    /\ UNCHANGED <<global_srd_mutex_, segments, unit_size, frame_open, capture_state>>

\* ~DecoderStack (lines 80-87)
destructor ==
    /\ mainPc = "idle"
    /\ IF Joinable
       THEN Cancel("dtor_join")
       ELSE /\ Destroyed
            /\ UNCHANGED <<pc, locals>>

\* decode_thread_.join() returns, and the destructor ends
destructor_joined ==
    /\ mainPc = "dtor_join"
    /\ pc[decode_thread_] = "exited"
    /\ pc' = [pc EXCEPT ![decode_thread_] = "none"]
    /\ ForgetLocals(decode_thread_)
    /\ Destroyed

\* The decode thread reads stack_ only while it creates its decoder
\* instances, and begin_decode reads it only after that thread has ended:
\* an edit of the stack made while a thread is past that point has the
\* effect of the same edit made once the thread has ended, and only the
\* latter is modelled.
StackEditable ==
    \A t \in ThreadIds : pc[t] \in {"none", "start", "create", "exited"}

\* push (lines 94-98) of one of the decoders ds
push_decoder(ds) ==
    /\ mainPc = "idle"
    /\ StackEditable
    /\ Len(stack_) < MaxStack
    /\ \E d \in ds : stack_' = Append(stack_, d)
    /\ UNCHANGED <<segments, seg_count, unit_size, frame_open, capture_state>>
    /\ UNCHANGED <<shared, mainPc, pc, locals>>

\* push of a decoder with annotation rows on top of the constructor's one
push == push_decoder(StackedDecoders)

\* push of any decoder, one the stack already holds included
push_any == push_decoder(Decoders)

\* remove (lines 100-112); the asserts make index a valid position
remove ==
    /\ mainPc = "idle"
    /\ StackEditable
    /\ \E index \in 0..(Len(stack_) - 1) :
          stack_' = [k \in 1..(Len(stack_) - 1) |->
                        IF k <= index THEN stack_[k] ELSE stack_[k + 1]]
    /\ UNCHANGED <<segments, seg_count, unit_size, frame_open, capture_state>>
    /\ UNCHANGED <<shared, mainPc, pc, locals>>

\* on_data_received (lines 447-455): the update under the input lock,
\* then notify_one.  (A notification that comes later than the unlock does
\* what spurious_wakeup does.)
on_data_received ==
    /\ mainPc = "idle"
    /\ InputMutexFree
    /\ sample_count_' = IF segment_ # 0 THEN seg_count[segment_] ELSE sample_count_
    /\ pc' \in NotifyOne(pc)
    /\ UNCHANGED <<segment_, frame_complete_, interrupt_, samples_decoded_,
                   error_message_, annotation_count_, rows_, class_rows_,
                   decode_thread_, global_srd_mutex_>>
    /\ UNCHANGED <<env, mainPc, locals>>

\* on_frame_ended (lines 457-465): the update under the input lock, then
\* notify_one.  The session sends frame_ended once the frame is over.
on_frame_ended ==
    /\ mainPc = "idle"
    /\ ~frame_open /\ segments # <<>>
    /\ InputMutexFree
    /\ frame_complete_' = IF segment_ # 0 THEN TRUE ELSE frame_complete_
    /\ pc' \in NotifyOne(pc)
    /\ UNCHANGED <<segment_, sample_count_, interrupt_, samples_decoded_,
                   error_message_, annotation_count_, rows_, class_rows_,
                   decode_thread_, global_srd_mutex_>>
    /\ UNCHANGED <<env, mainPc, locals>>

\* ------------------------------------------------------------ queries
\* the rows get_visible_rows adds for one decoder (lines 144-154): Row(decc)
\* when it has no row list, else Row(decc, ann_row) for each of its rows
RowList(decc) ==
    IF AnnotationRows(decc) = <<>>
    THEN <<Row(decc, 0)>>
    ELSE [r \in DOMAIN AnnotationRows(decc) |-> Row(decc, r)]

\* get_visible_rows' loop over stack_ from position k on (lines 136-155)
RECURSIVE VisibleRowsFrom(_, _)
VisibleRowsFrom(stack, k) ==
    IF k > Len(stack) THEN <<>>
    ELSE (IF stack[k].shown THEN RowList(stack[k].dec) ELSE <<>>)
         \o VisibleRowsFrom(stack, k + 1)

\* (mutant) the rows of the hidden decoders are listed too
get_visible_rows_All ==
    VisibleRowsFrom([k \in DOMAIN stack_ |-> [stack_[k] EXCEPT !.shown = TRUE]], 1)

\* get_visible_rows (lines 130-158)
get_visible_rows == VisibleRowsFrom(stack_, 1)

\* RowData::get_annotation_subset (pv/data/decode/rowdata.cpp, not among the
\* sources at hand): the annotations of the store whose [start, end)
\* overlaps [start_sample, end_sample), in stored order
RowData_get_annotation_subset(annotations, start_sample, end_sample) ==
    SelectSeq(annotations,
              LAMBDA a : a.start < end_sample /\ a.end > start_sample)

\* (mutant) the row argument is not looked at: the first row store answers
get_annotation_subset_AnyRow(dest, row, start_sample, end_sample) ==
    IF DOMAIN rows_ # {}
    THEN dest \o RowData_get_annotation_subset(
                    rows_[CHOOSE r \in DOMAIN rows_ : TRUE],
                    start_sample, end_sample)
    ELSE dest

\* get_annotation_subset (lines 165-176): dest with what the row's store
\* appends to it, or dest as it was when rows_ has no such row
get_annotation_subset(dest, row, start_sample, end_sample) ==
    IF row \in DOMAIN rows_
    THEN dest \o RowData_get_annotation_subset(rows_[row], start_sample, end_sample)
    ELSE dest

\* ------------------------------------------------------------ decode thread
\* (mutant) the chunk length in bytes is taken for a number of samples
ChunkSampleCount_Bytes == DecodeChunkLength

\* decode_data: chunk_sample_count (lines 311-312)
ChunkSampleCount == DecodeChunkLength \div unit_size

\* (mutant) the last chunk is not clipped to sample_count
ChunkEnd_NoClamp(t) == i[t] + ChunkSampleCount

\* decode_data: chunk_end (lines 317-318)
ChunkEnd(t) == Min(i[t] + ChunkSampleCount, sample_count[t])

\* (mutant) abs_start_samplenum is never advanced
NextAbsStart_Zero(t) == 0

\* decode_proc: abs_start_samplenum = *sample_count (line 387)
NextAbsStart(t) == sample_count[t]

\* (mutant) decode_proc's loop does not test the error message
ErrorIsEmpty_Always(e) == TRUE

\* decode_proc: error_message_.isEmpty() in the loop condition (line 388)
ErrorIsEmpty(e) == e = ErrNone

\* (mutant) decode_proc goes on after a failed create_decoder_inst
AfterCreateFailure_GoOn == "init_count"

\* decode_proc: the return after a failed create_decoder_inst (line 360)
AfterCreateFailure == "exited"

\* (mutant) the chunk loop does not look at interrupt_
ChunkLoopCond_NoInterrupt(t) == i[t] < sample_count[t]

\* decode_data: the loop condition (line 314)
ChunkLoopCond(t) == ~interrupt_ /\ i[t] < sample_count[t]

\* (mutant) the wait loop does not look at frame_complete_
WaitCond_IgnoresFrameEnd ==
    /\ ~interrupt_
    /\ samples_decoded_ >= sample_count_
    /\ capture_state # "Stopped"

\* wait_for_data: the condition of the wait loop (lines 291-293)
WaitCond ==
    /\ ~interrupt_
    /\ ~frame_complete_
    /\ samples_decoded_ >= sample_count_
    /\ capture_state # "Stopped"

\* (mutant) a complete frame ends the run whatever is left to decode
WaitHasValue_EndsWithFrame ==
    /\ ~interrupt_
    /\ ~frame_complete_
    /\ ~(samples_decoded_ >= sample_count_ /\ capture_state = "Stopped")

\* wait_for_data: the returned optional has a value (lines 299-303)
WaitHasValue ==
    /\ ~interrupt_
    /\ (samples_decoded_ < sample_count_ \/ ~frame_complete_)
    /\ ~(samples_decoded_ >= sample_count_ /\ capture_state = "Stopped")

\* (mutant) the class map is not consulted
FindRow_DecoderAlone(rows, class_rows, a) ==
    IF Row(a.dec, 0) \in DOMAIN rows THEN Row(a.dec, 0) ELSE <<>>

\* annotation_callback: the row of an annotation, or <<>> when neither the
\* class map nor the decoder-alone row gives one (lines 415-424)
FindRow(rows, class_rows, a) ==
    LET key == <<a.dec, a.fmt>>
        row == IF key \in DOMAIN class_rows THEN class_rows[key] ELSE Row(a.dec, 0)
    IN IF row \in DOMAIN rows THEN row ELSE <<>>

\* the number of annotations the row stores hold
RECURSIVE StoredIn(_)
StoredIn(rows) ==
    IF DOMAIN rows = {} THEN 0
    ELSE LET r == CHOOSE x \in DOMAIN rows : TRUE
         IN Len(rows[r]) + StoredIn([x \in (DOMAIN rows) \ {r} |-> rows[x]])

\* (mutant) annotation_callback notifies at every annotation but the first
\* of a period
NotifyDue_NotFirst(count) == count % DecodeNotifyPeriod # 0

\* annotation_callback, line 438: inc_annotation_count() returns the count
\* before the increment
NotifyDue(count) == count % DecodeNotifyPeriod = 0

\* (mutant) the row keeps the newest annotation only
annotation_callback_Replaces(st, a) ==
    LET row == FindRow(st.rows, class_rows_, a)
        rows2 == [st.rows EXCEPT ![row] = <<a>>]
    IN IF row = <<>>
       THEN st
       ELSE [rows |-> rows2, count |-> st.count + 1,
             notified |-> IF NotifyDue(st.count) THEN StoredIn(rows2) ELSE st.notified]

\* (mutant) an annotation without a row is counted all the same
annotation_callback_CountsAll(st, a) ==
    LET row == FindRow(st.rows, class_rows_, a)
        rows2 == IF row = <<>> THEN st.rows
                 ELSE [st.rows EXCEPT ![row] = Append(@, a)]
    IN [rows |-> rows2, count |-> st.count + 1,
        notified |-> IF NotifyDue(st.count) THEN StoredIn(rows2) ELSE st.notified]

\* annotation_callback (lines 397-440) for one annotation: the rows, the
\* annotation counter and the last notification it leaves.  (The asserts
\* are compiled out: line 400 names an undeclared variable, so the file
\* builds with NDEBUG only.)
annotation_callback(st, a) ==
    LET row == FindRow(st.rows, class_rows_, a)
        rows2 == [st.rows EXCEPT ![row] = Append(@, a)]
    IN IF row = <<>>
       THEN st
       ELSE [rows |-> rows2, count |-> st.count + 1,
             notified |-> IF NotifyDue(st.count) THEN StoredIn(rows2) ELSE st.notified]

\* the callbacks of one feed call, in the order the engine makes them
RECURSIVE Callbacks(_, _)
Callbacks(st, anns) ==
    IF anns = <<>> THEN st
    ELSE Callbacks(annotation_callback(st, Head(anns)), Tail(anns))

\* what the engine may emit during the feed of [i, chunk_end): nothing, or
\* one annotation of one of the session's decoder instances
Emissions(t) ==
    {<<>>} \cup
    IF annotation_count_ < MaxAnnotations
    THEN UNION {{<<[dec |-> insts[t][k], fmt |-> c, start |-> i[t], end |-> chunk_end[t]]>> :
                    c \in AnnotationClasses(insts[t][k])} : k \in DOMAIN insts[t]}
    ELSE {}

\* the annotations instance k of the session may emit during the feed of
\* [i, chunk_end): any class of its decoder, starting at any sample of the
\* chunk
InstanceEmissions(t, k) ==
    {[dec |-> insts[t][k], fmt |-> c, start |-> s, end |-> chunk_end[t]] :
        c \in AnnotationClasses(insts[t][k]), s \in i[t]..(chunk_end[t] - 1)}

\* what the engine may emit during one feed when every instance of the
\* stack emits at most one annotation: the callbacks come in the order in
\* which the instances emit, which need not be the order of the stack nor
\* that of the start samples (a stacked instance emits when the instance
\* below it hands it a packet)
StackedEmissions(t) ==
    LET room == MaxAnnotations - annotation_count_
        K == DOMAIN insts[t]
    IN {<<>>}
       \cup (IF room >= 1 THEN UNION {{<<a>> : a \in InstanceEmissions(t, k)} : k \in K}
             ELSE {})
       \cup (IF room >= 2
             THEN UNION {{<<a, b>> : a \in InstanceEmissions(t, k[1]),
                                    b \in InstanceEmissions(t, k[2])} :
                            k \in {x \in K \X K : x[1] # x[2]}}
             ELSE {})

\* decode_proc, lines 344-349: take the engine lock, create the session
dp_lock(t) ==
    /\ pc[t] = "start"
    /\ EngineLockFree
    /\ global_srd_mutex_' = t
    /\ session' = [session EXCEPT ![t] = "open"]
    /\ di_next' = [di_next EXCEPT ![t] = 1]
    /\ pc' = [pc EXCEPT ![t] = "create"]
    /\ UNCHANGED <<segment_, sample_count_, frame_complete_, interrupt_,
                   samples_decoded_, error_message_, annotation_count_, rows_,
                   class_rows_, decode_thread_>>
    /\ UNCHANGED <<sample_count, abs_start_samplenum, i, chunk_end, insts,
                   feeds, initial_count, notified>>
    /\ UNCHANGED <<env, mainPc>>

\* decode_proc, lines 354-367: one turn of the loop creating the decoders
dp_create(t) ==
    /\ pc[t] = "create"
    /\ IF di_next[t] > Len(stack_)
       THEN /\ pc' = [pc EXCEPT ![t] = "init_count"]
            /\ UNCHANGED <<error_message_, global_srd_mutex_, session, insts, di_next,
                           sample_count, abs_start_samplenum, i, chunk_end,
                           feeds, initial_count>>
       ELSE \E ok \in BOOLEAN :
              IF ok
              THEN /\ insts' = [insts EXCEPT ![t] = Append(@, stack_[di_next[t]].dec)]
                   /\ di_next' = [di_next EXCEPT ![t] = @ + 1]
                   /\ UNCHANGED <<pc, error_message_, global_srd_mutex_, session,
                                  sample_count, abs_start_samplenum, i, chunk_end,
                                  feeds, initial_count>>
              ELSE /\ error_message_' = ErrCreate
                   /\ global_srd_mutex_' = 0
                   /\ pc' = [pc EXCEPT ![t] = AfterCreateFailure]
                   /\ ExitLocals(t)
    /\ UNCHANGED <<segment_, sample_count_, frame_complete_, interrupt_,
                   samples_decoded_, annotation_count_, rows_, class_rows_,
                   decode_thread_, notified>>
    /\ UNCHANGED <<env, mainPc>>

\* decode_proc, lines 369-384: the initial sample count, session start,
\* and the entry of the first decode_data
dp_init_count(t) ==
    /\ pc[t] = "init_count"
    /\ InputMutexFree
    /\ sample_count_' = seg_count[segment_]
    /\ sample_count' = [sample_count EXCEPT ![t] = seg_count[segment_]]
    /\ initial_count' = [initial_count EXCEPT ![t] = seg_count[segment_]]
    /\ abs_start_samplenum' = [abs_start_samplenum EXCEPT ![t] = 0]
    /\ i' = [i EXCEPT ![t] = 0]
    /\ pc' = [pc EXCEPT ![t] = "loop"]
    /\ UNCHANGED <<segment_, frame_complete_, interrupt_, samples_decoded_,
                   error_message_, annotation_count_, rows_, class_rows_,
                   decode_thread_, global_srd_mutex_>>
    /\ UNCHANGED <<chunk_end, di_next, insts, session, feeds, notified>>
    /\ UNCHANGED <<env, mainPc>>

\* decode_data, line 314: the loop test; when it fails decode_data returns
\* and decode_proc tests error_message_ (lines 387-388)
dd_loop(t) ==
    /\ pc[t] = "loop"
    /\ IF ChunkLoopCond(t)
       THEN /\ chunk_end' = [chunk_end EXCEPT ![t] = ChunkEnd(t)]
            /\ pc' = [pc EXCEPT ![t] = "send"]
            /\ UNCHANGED abs_start_samplenum
       ELSE /\ abs_start_samplenum' = [abs_start_samplenum EXCEPT ![t] = NextAbsStart(t)]
            /\ pc' = [pc EXCEPT ![t] =
                        IF ErrorIsEmpty(error_message_) THEN "wait_eval" ELSE "final"]
            /\ UNCHANGED chunk_end
    /\ UNCHANGED <<sample_count, i, di_next, insts, session, feeds, initial_count,
                   notified>>
    /\ UNCHANGED <<env, shared, mainPc>>

\* decode_data, lines 319-327: srd_session_send, during which the engine
\* calls annotation_callback; on failure the error is recorded, the loop
\* is left and decode_proc's loop ends
\* anns are the annotations the engine emits during the call and ok its
\* result
srd_session_send(t, anns, ok) ==
    /\ pc[t] = "send"
    /\ anns # <<>> => OutputMutexFree
    /\ LET cb == Callbacks([rows |-> rows_, count |-> annotation_count_,
                            notified |-> notified[t]], anns) IN
          /\ rows_' = cb.rows
          /\ annotation_count_' = cb.count
          /\ notified' = [notified EXCEPT ![t] = cb.notified]
          /\ feeds' = [feeds EXCEPT ![t] = Append(@, <<i[t], chunk_end[t]>>)]
          /\ IF ok
             THEN /\ pc' = [pc EXCEPT ![t] = "commit"]
                  /\ UNCHANGED <<error_message_, abs_start_samplenum>>
             ELSE /\ error_message_' = ErrFeed
                  /\ abs_start_samplenum' =
                        [abs_start_samplenum EXCEPT ![t] = NextAbsStart(t)]
                  /\ pc' = [pc EXCEPT ![t] =
                              IF ErrorIsEmpty(ErrFeed) THEN "wait_eval" ELSE "final"]
    /\ UNCHANGED <<segment_, sample_count_, frame_complete_, interrupt_,
                   samples_decoded_, class_rows_, decode_thread_, global_srd_mutex_>>
    /\ UNCHANGED <<sample_count, i, chunk_end, di_next, insts, session, initial_count>>
    /\ UNCHANGED <<env, mainPc>>

dd_send(t) ==
    \E anns \in Emissions(t), ok \in BOOLEAN : srd_session_send(t, anns, ok)

\* the feed call with the callbacks of every instance of the stack
dd_send_stacked(t) ==
    \E anns \in StackedEmissions(t), ok \in BOOLEAN : srd_session_send(t, anns, ok)

\* decode_data, lines 329-332 and the loop increment (line 315)
dd_commit(t) ==
    /\ pc[t] = "commit"
    /\ OutputMutexFree
    /\ samples_decoded_' = chunk_end[t]
    /\ i' = [i EXCEPT ![t] = @ + ChunkSampleCount]
    /\ pc' = [pc EXCEPT ![t] = "loop"]
    /\ UNCHANGED <<segment_, sample_count_, frame_complete_, interrupt_,
                   error_message_, annotation_count_, rows_, class_rows_,
                   decode_thread_, global_srd_mutex_>>
    /\ UNCHANGED <<sample_count, abs_start_samplenum, chunk_end, di_next, insts,
                   session, feeds, initial_count, notified>>
    /\ UNCHANGED <<env, mainPc>>

\* wait_for_data, lines 287-293: with the input lock, test the wait loop
wfd_eval(t) ==
    /\ pc[t] = "wait_eval"
    /\ InputMutexFree
    /\ pc' = [pc EXCEPT ![t] = IF WaitCond THEN "wait_enter" ELSE "wait_ret"]
    /\ UNCHANGED <<env, shared, mainPc, locals>>

\* wait_for_data, line 295: input_cond_.wait releases the lock and blocks
wfd_block(t) ==
    /\ pc[t] = "wait_enter"
    /\ pc' = [pc EXCEPT ![t] = "waiting"]
    /\ UNCHANGED <<env, shared, mainPc, locals>>

\* a condition variable may wake without a notification
spurious_wakeup(t) ==
    /\ pc[t] = "waiting"
    /\ pc' = [pc EXCEPT ![t] = "wait_eval"]
    /\ UNCHANGED <<env, shared, mainPc, locals>>

\* wait_for_data, lines 299-304, and decode_proc's loop (lines 385-388)
wfd_return(t) ==
    /\ pc[t] = "wait_ret"
    /\ IF WaitHasValue
       THEN /\ sample_count' = [sample_count EXCEPT ![t] = sample_count_]
            /\ i' = [i EXCEPT ![t] = abs_start_samplenum[t]]
            /\ pc' = [pc EXCEPT ![t] = "loop"]
       ELSE /\ pc' = [pc EXCEPT ![t] = "final"]
            /\ UNCHANGED <<sample_count, i>>
    /\ UNCHANGED <<abs_start_samplenum, chunk_end, di_next, insts, session,
                   feeds, initial_count, notified>>
    /\ UNCHANGED <<env, shared, mainPc>>

\* (mutant) decode_proc ends without a last notification
FinalNotification_None(t) == notified[t]

\* decode_proc, line 391: new_annotations() tells the frontend of every
\* annotation stored so far
FinalNotification(t) == StoredIn(rows_)

\* decode_proc, lines 390-391: the loop is left, the last notification
dp_final(t) ==
    /\ pc[t] = "final"
    /\ notified' = [notified EXCEPT ![t] = FinalNotification(t)]
    /\ pc' = [pc EXCEPT ![t] = "destroy"]
    /\ UNCHANGED <<sample_count, abs_start_samplenum, i, chunk_end, di_next, insts,
                   session, feeds, initial_count>>
    /\ UNCHANGED <<env, shared, mainPc>>

\* decode_proc, lines 393-395: the session destroyed, the engine lock
\* released, the thread ends
dp_destroy(t) ==
    /\ pc[t] = "destroy"
    /\ global_srd_mutex_' = 0
    /\ pc' = [pc EXCEPT ![t] = "exited"]
    /\ ExitLocals(t)
    /\ UNCHANGED <<segment_, sample_count_, frame_complete_, interrupt_,
                   samples_decoded_, error_message_, annotation_count_, rows_,
                   class_rows_, decode_thread_, notified>>
    /\ UNCHANGED <<env, mainPc>>

\* ------------------------------------------------------------ environment
\* Decoder::set_channels: the channel bindings of a stacked decoder change
set_channels ==
    /\ mainPc = "idle"
    /\ StackEditable
    /\ \E k \in DOMAIN stack_, d \in Decoders :
          /\ d.dec = stack_[k].dec
          /\ <<d.req, d.chan>> # <<stack_[k].req, stack_[k].chan>>
          /\ stack_' = [stack_ EXCEPT ![k] = [@ EXCEPT !.req = d.req, !.chan = d.chan]]
    /\ UNCHANGED <<segments, seg_count, unit_size, frame_open, capture_state>>
    /\ UNCHANGED <<shared, mainPc, pc, locals>>

\* a capture starts: the old segments are dropped from the logic data.
\* Only a start between two runs (no decode thread at work) is modelled.
capture_start ==
    /\ capture_state = "Stopped"
    /\ \A t \in ThreadIds : pc[t] \in {"none", "exited"}
    /\ capture_state' = "Running"
    /\ segments' = <<>>
    /\ seg_count' = Collect(<<>>, segment_)
    /\ frame_open' = FALSE
    /\ UNCHANGED <<stack_, unit_size>>
    /\ UNCHANGED <<shared, mainPc, pc, locals>>

\* a frame begins: a new, empty segment is pushed
frame_begin ==
    /\ capture_state = "Running"
    /\ segments = <<>>
    /\ LET s == CHOOSE x \in SegIds : x # segment_ /\ \A y \in SegIds : y # segment_ => x <= y
       IN /\ segments' = <<s>>
          /\ seg_count' = [seg_count EXCEPT ![s] = 0]
    /\ frame_open' = TRUE
    /\ UNCHANGED <<stack_, unit_size, capture_state>>
    /\ UNCHANGED <<shared, mainPc, pc, locals>>

\* samples are appended to the segment of the open frame
data_append ==
    /\ frame_open
    /\ seg_count[Head(segments)] < MaxSamples
    /\ seg_count' = [seg_count EXCEPT ![Head(segments)] = @ + 1]
    /\ UNCHANGED <<stack_, segments, unit_size, frame_open, capture_state>>
    /\ UNCHANGED <<shared, mainPc, pc, locals>>

\* the frame ends
frame_end ==
    /\ frame_open
    /\ frame_open' = FALSE
    /\ UNCHANGED <<stack_, segments, seg_count, unit_size, capture_state>>
    /\ UNCHANGED <<shared, mainPc, pc, locals>>

\* the capture stops
capture_stop ==
    /\ capture_state = "Running"
    /\ capture_state' = "Stopped"
    /\ frame_open' = FALSE
    /\ UNCHANGED <<stack_, segments, seg_count, unit_size>>
    /\ UNCHANGED <<shared, mainPc, pc, locals>>

\* Decoder::show: a decoder of the stack is marked visible or hidden
show ==
    /\ mainPc = "idle"
    /\ StackEditable
    /\ \E k \in DOMAIN stack_ :
          stack_' = [stack_ EXCEPT ![k] = [@ EXCEPT !.shown = ~@]]
    /\ UNCHANGED <<segments, seg_count, unit_size, frame_open, capture_state>>
    /\ UNCHANGED <<shared, mainPc, pc, locals>>

\* samples_decoded(), error_message(), get_annotation_subset(),
\* get_visible_rows() (lines 126, 132, 170, 180): the caller takes
\* output_mutex_
reader_lock ==
    /\ mainPc = "idle"
    /\ mainPc' = "reading"
    /\ UNCHANGED <<env, shared, pc, locals>>

\* the reader returns and its lock_guard releases output_mutex_
reader_unlock ==
    /\ mainPc = "reading"
    /\ mainPc' = "idle"
    /\ UNCHANGED <<env, shared, pc, locals>>

\* ------------------------------------------------------------ peer stack
\* A second DecoderStack of the process, seen through the engine lock only:
\* its begin_decode starts its decode thread (line 271)
peer_begin_decode ==
    /\ mainPc = "idle"
    /\ pc[PeerThread] = "none"
    /\ pc' = [pc EXCEPT ![PeerThread] = "start"]
    /\ UNCHANGED <<env, shared, mainPc, locals>>

\* the peer's decode_proc takes the engine lock and creates its session
\* (lines 344-349); it then creates instances, feeds and waits for data
peer_dp_lock ==
    /\ pc[PeerThread] = "start"
    /\ EngineLockFree
    /\ global_srd_mutex_' = PeerThread
    /\ pc' = [pc EXCEPT ![PeerThread] = "engine"]
    /\ UNCHANGED <<segment_, sample_count_, frame_complete_, interrupt_,
                   samples_decoded_, error_message_, annotation_count_, rows_,
                   class_rows_, decode_thread_>>
    /\ UNCHANGED <<env, mainPc, locals>>

\* the peer's decode_proc destroys its session and returns (lines 360,
\* 393-395): the lock_guard releases the engine lock
peer_dp_final ==
    /\ pc[PeerThread] = "engine"
    /\ global_srd_mutex_' = 0
    /\ pc' = [pc EXCEPT ![PeerThread] = "none"]
    /\ UNCHANGED <<segment_, sample_count_, frame_complete_, interrupt_,
                   samples_decoded_, error_message_, annotation_count_, rows_,
                   class_rows_, decode_thread_>>
    /\ UNCHANGED <<env, mainPc, locals>>

\* the peer's begin_decode finds its thread joinable (lines 197-200): it
\* sets the peer's interrupt_, notifies, and the caller blocks in join
peer_begin_decode_join ==
    /\ mainPc = "idle"
    /\ pc[PeerThread] \in {"start", "engine"}
    /\ mainPc' = "peer_join"
    /\ UNCHANGED <<env, shared, pc, locals>>

\* the join returns once the peer's thread has ended, and the peer's
\* begin_decode goes on to start a new thread (line 271)
peer_begin_decode_joined ==
    /\ mainPc = "peer_join"
    /\ pc[PeerThread] = "none"
    /\ mainPc' = "idle"
    /\ pc' = [pc EXCEPT ![PeerThread] = "start"]
    /\ UNCHANGED <<env, shared, locals>>

\* ------------------------------------------------------------ specification
Next ==
    \/ begin_decode
    \/ on_new_frame
    \/ begin_decode_joined
    \/ push
    \/ remove
    \/ set_channels
    \/ on_data_received
    \/ on_frame_ended
    \/ capture_start
    \/ frame_begin
    \/ data_append
    \/ frame_end
    \/ capture_stop
    \/ \E t \in ThreadIds : dp_lock(t)
    \/ \E t \in ThreadIds : dp_create(t)
    \/ \E t \in ThreadIds : dp_init_count(t)
    \/ \E t \in ThreadIds : dd_loop(t)
    \/ \E t \in ThreadIds : dd_send(t)
    \/ \E t \in ThreadIds : dd_commit(t)
    \/ \E t \in ThreadIds : wfd_eval(t)
    \/ \E t \in ThreadIds : wfd_block(t)
    \/ \E t \in ThreadIds : spurious_wakeup(t)
    \/ \E t \in ThreadIds : wfd_return(t)
    \/ \E t \in ThreadIds : dp_final(t)
    \/ \E t \in ThreadIds : dp_destroy(t)

Spec == Init /\ [][Next]_vars

\* the same with the destruction of the DecoderStack
NextDestroy ==
    \/ Next
    \/ destructor
    \/ destructor_joined

SpecDestroy == Init /\ [][NextDestroy]_vars

\* a step of decode thread t (a wake-up without notification is not one
\* the thread can count on)
ThreadStep(t) ==
    \/ dp_lock(t)
    \/ dp_create(t)
    \/ dp_init_count(t)
    \/ dd_loop(t)
    \/ dd_send(t)
    \/ dd_commit(t)
    \/ wfd_eval(t)
    \/ wfd_block(t)
    \/ wfd_return(t)
    \/ dp_final(t)
    \/ dp_destroy(t)

\* The scheduler runs every thread that can run: a decode thread that can
\* take a step takes one, and a join returns once the joined thread ended.
\* Nothing obliges the callers or the capture to act.
FairSpec ==
    /\ Init /\ [][NextDestroy]_vars
    /\ \A t \in ThreadIds : WF_vars(ThreadStep(t))
    /\ WF_vars(begin_decode_joined)
    /\ WF_vars(destructor_joined)

\* The runs of a stack that keeps the one decoder of its construction: no
\* push and no remove.  The progress of the feed/wait loop does not depend
\* on which decoders the stack holds.
RunNext ==
    \/ begin_decode
    \/ on_new_frame
    \/ begin_decode_joined
    \/ destructor
    \/ destructor_joined
    \/ set_channels
    \/ on_data_received
    \/ on_frame_ended
    \/ capture_start
    \/ frame_begin
    \/ data_append
    \/ frame_end
    \/ capture_stop
    \/ \E t \in ThreadIds : dp_lock(t)
    \/ \E t \in ThreadIds : dp_create(t)
    \/ \E t \in ThreadIds : dp_init_count(t)
    \/ \E t \in ThreadIds : dd_loop(t)
    \/ \E t \in ThreadIds : dd_send(t)
    \/ \E t \in ThreadIds : dd_commit(t)
    \/ \E t \in ThreadIds : wfd_eval(t)
    \/ \E t \in ThreadIds : wfd_block(t)
    \/ \E t \in ThreadIds : spurious_wakeup(t)
    \/ \E t \in ThreadIds : wfd_return(t)
    \/ \E t \in ThreadIds : dp_final(t)
    \/ \E t \in ThreadIds : dp_destroy(t)

\* the scheduling of FairSpec over these runs
RunFairSpec ==
    /\ Init /\ [][RunNext]_vars
    /\ \A t \in ThreadIds : WF_vars(ThreadStep(t))
    /\ WF_vars(begin_decode_joined)
    /\ WF_vars(destructor_joined)

\* two DecoderStacks of one process: the runs of RunNext and the peer
SharedNext ==
    \/ RunNext
    \/ peer_begin_decode
    \/ peer_dp_lock
    \/ peer_dp_final
    \/ peer_begin_decode_join
    \/ peer_begin_decode_joined

SharedSpec == Init /\ [][SharedNext]_vars

\* The scheduling of FairSpec over the two stacks.  The peer's thread takes
\* the engine lock when it is free and, once in the engine, comes to its
\* end (as it does when its interrupt_ is set).
SharedFairSpec ==
    /\ Init /\ [][SharedNext]_vars
    /\ \A t \in ThreadIds : WF_vars(ThreadStep(t))
    /\ WF_vars(begin_decode_joined)
    /\ WF_vars(destructor_joined)
    /\ WF_vars(peer_dp_lock)
    /\ WF_vars(peer_dp_final)
    /\ WF_vars(peer_begin_decode_joined)

\* the stack is edited and its decoders shown and hidden, and begin_decode
\* called, with no capture made
EditNext ==
    \/ push
    \/ remove
    \/ set_channels
    \/ show
    \/ begin_decode

EditSpec == Init /\ [][EditNext]_vars

\* the runs of RunNext with a caller that reads the results
ReaderNext ==
    \/ RunNext
    \/ reader_lock
    \/ reader_unlock

ReaderSpec == Init /\ [][ReaderNext]_vars

\* the runs of a stack that grows, over one frame, with the callbacks of
\* every instance of the stack during a feed
StackedNext ==
    \/ push_any
    \/ set_channels
    \/ begin_decode
    \/ begin_decode_joined
    \/ on_data_received
    \/ on_frame_ended
    \/ capture_start
    \/ frame_begin
    \/ data_append
    \/ frame_end
    \/ \E t \in ThreadIds : dp_lock(t)
    \/ \E t \in ThreadIds : dp_create(t)
    \/ \E t \in ThreadIds : dp_init_count(t)
    \/ \E t \in ThreadIds : dd_loop(t)
    \/ \E t \in ThreadIds : dd_send_stacked(t)
    \/ \E t \in ThreadIds : dd_commit(t)
    \/ \E t \in ThreadIds : wfd_eval(t)
    \/ \E t \in ThreadIds : wfd_block(t)
    \/ \E t \in ThreadIds : wfd_return(t)
    \/ \E t \in ThreadIds : dp_final(t)
    \/ \E t \in ThreadIds : dp_destroy(t)

StackedSpec == Init /\ [][StackedNext]_vars

\* ------------------------------------------------------------ claims
\* samples_decoded() (lines 124-128) returns samples_decoded_
samples_decoded == samples_decoded_

\* error_message() (lines 178-182) returns error_message_
error_message == error_message_

\* the step of begin_decode that runs clear() and the setup of a new run
ResetStep == (begin_decode /\ ~Joinable) \/ begin_decode_joined

\* C1: within one run samples_decoded() never decreases: every step other
\* than begin_decode's reset leaves it as it is or raises it.
C1_SamplesDecodedMonotone ==
    [][ResetStep \/ samples_decoded' >= samples_decoded]_vars

\* C1 witness: a chunk of a second decode_data call of the run (after a
\* wait) is about to raise samples_decoded_ again.
C1_Witness ==
    \E t \in ThreadIds :
        /\ pc[t] = "commit"
        /\ abs_start_samplenum[t] > 0
        /\ samples_decoded_ > 0
        /\ chunk_end[t] > samples_decoded_

\* C2: samples_decoded_ <= sample_count_ in every reachable state (the
\* sample count of a segment never decreases in this model).
C2_DecodedWithinCount == samples_decoded_ <= sample_count_

\* C2 witness: the decode thread has decoded every sample it knew of, is
\* back in wait_for_data, and on_data_received has raised sample_count_.
C2_Witness ==
    \E t \in ThreadIds :
        /\ pc[t] = "wait_eval"
        /\ samples_decoded_ > 0
        /\ samples_decoded_ < sample_count_

\* C3: at most one decode thread exists: there is never more than one
\* started thread that has not been joined, it is the one decode_thread_
\* holds, and begin_decode's reset step is taken only when no thread other
\* than an ended one exists.
C3_OneDecodeThread ==
    /\ Cardinality({t \in ThreadIds : pc[t] # "none"}) <= 1
    /\ \A t \in ThreadIds : pc[t] # "none" => decode_thread_ = t
    /\ mainPc = "idle" /\ decode_thread_ = 0 => \A t \in ThreadIds : pc[t] = "none"

\* C3 witness: begin_decode was called during a run, the cancelled thread
\* has ended, and the join is about to return into a setup that starts the
\* next thread.
C3_Witness ==
    /\ mainPc = "bd_join"
    /\ pc[decode_thread_] = "exited"
    /\ samples_decoded_ > 0
    /\ HaveRequiredChannels(stack_)
    /\ HaveSegment(stack_)

\* the main thread is blocked in decode_thread_.join()
Joining == mainPc \in {"bd_join", "dtor_join"}

\* C4: cancellation always completes: whenever begin_decode or the
\* destructor has interrupted a running decode thread and waits in join,
\* the thread eventually ends and the join returns, with no help from a
\* later on_data_received or on_frame_ended (which the blocked caller
\* cannot deliver).  Checked under FairSpec.
C4_CancellationCompletes == Joining ~> ~Joining

\* the rows hold no annotation
NoAnnotations(rows) == \A r \in DOMAIN rows : rows[r] = <<>>

\* C5: begin_decode's reset step leaves sample_count_, samples_decoded_ and
\* the annotation counter 0, frame_complete_ false, the error message empty
\* (or the missing-channels message this very begin_decode records) and no
\* annotation in any row; and a run whose segment is empty reaches its end
\* with no annotation stored and samples_decoded() = 0, whatever was there
\* before.
C5_ResetOnBeginDecode ==
    [][/\ ResetStep =>
            /\ sample_count_' = 0
            /\ samples_decoded' = 0
            /\ annotation_count_' = 0
            /\ ~frame_complete_'
            /\ \/ error_message' = ErrNone
               \/ error_message' = ErrChannels /\ ~HaveRequiredChannels(stack_)
            /\ NoAnnotations(rows_')
       /\ \A t \in ThreadIds :
            pc'[t] = "final" /\ seg_count'[segment_'] = 0 =>
                /\ NoAnnotations(rows_')
                /\ annotation_count_' = 0
                /\ samples_decoded' = 0
      ]_vars

\* C5 witness: a first run has left annotations, progress, frame_complete_
\* and an error; begin_decode has been called again, the old thread has
\* ended, and the run about to be set up is over a new, empty segment.
C5_Witness ==
    /\ mainPc = "bd_join"
    /\ pc[decode_thread_] = "exited"
    /\ ~NoAnnotations(rows_)
    /\ annotation_count_ > 0
    /\ samples_decoded_ > 0
    /\ frame_complete_
    /\ error_message_ # ErrNone
    /\ HaveRequiredChannels(stack_)
    /\ HaveSegment(stack_)
    /\ Head(segments) # segment_
    /\ seg_count[Head(segments)] = 0

\* C6: a begin_decode that finds a decoder without its required channels
\* records the missing-channels message; and while that message stands
\* samples_decoded() is 0, no decode thread exists, and no engine session,
\* decoder instance or feed call has been made.
C6_MissingChannels ==
    [][/\ ResetStep /\ ~(\A k \in DOMAIN stack_ : stack_[k].req) =>
            error_message' = ErrChannels
       /\ error_message' = ErrChannels =>
            /\ samples_decoded' = 0
            /\ decode_thread_' = 0
            /\ global_srd_mutex_' = 0
            /\ \A t \in ThreadIds :
                /\ pc'[t] = "none"
                /\ session'[t] = "none"
                /\ insts'[t] = <<>>
                /\ feeds'[t] = <<>>
      ]_vars

\* C6 witness: begin_decode was called during a run with work done, the old
\* thread has ended, a decoder lacks a required channel although logic data
\* and a segment are there.
C6_Witness ==
    /\ mainPc = "bd_join"
    /\ pc[decode_thread_] = "exited"
    /\ samples_decoded_ > 0
    /\ \E k \in DOMAIN stack_ : ~stack_[k].req
    /\ \E k \in DOMAIN stack_ : stack_[k].chan
    /\ segments # <<>>

\* C7: a begin_decode that finds every required channel but no logic data
\* or no segment ends with an empty error message, samples_decoded() = 0,
\* no decode thread, and the caller idle again.
C7_NoSegmentSilent ==
    [][ResetStep
        /\ (\A k \in DOMAIN stack_ : stack_[k].req)
        /\ (~(\E k \in DOMAIN stack_ : stack_[k].chan) \/ segments = <<>>)
        => /\ error_message' = ErrNone
           /\ samples_decoded' = 0
           /\ decode_thread_' = 0
           /\ mainPc' = "idle"
           /\ \A t \in ThreadIds : pc'[t] = "none" /\ session'[t] = "none"
      ]_vars

\* C7 witness: begin_decode was called during a run with work done, the old
\* thread has ended, the stack is not empty, its decoders have their
\* required channels, a segment exists, but no decoder has logic data.
C7_Witness ==
    /\ mainPc = "bd_join"
    /\ pc[decode_thread_] = "exited"
    /\ samples_decoded_ > 0
    /\ stack_ # <<>>
    /\ \A k \in DOMAIN stack_ : stack_[k].req
    /\ ~(\E k \in DOMAIN stack_ : stack_[k].chan)
    /\ segments # <<>>

\* the feed calls of a run over n samples, all there at its start, with
\* chunks of c samples
RECURSIVE Chunks(_, _, _)
Chunks(from, n, c) ==
    IF from >= n THEN <<>>
    ELSE <<<<from, Min(from + c, n)>>>> \o Chunks(from + c, n, c)

\* C8: a run whose samples were all there at its start and that met no
\* engine error and no interrupt has, when it leaves the feed/wait loop,
\* made exactly ceil(N/C) feed calls, the k-th over [k*C, min((k+1)*C, N)),
\* in order; samples_decoded() is N and the error message is empty.
C8_ChunkedFeed ==
    \A t \in ThreadIds :
        LET n == seg_count[segment_]
            c == DecodeChunkLength \div unit_size
        IN  pc[t] = "final" /\ error_message = ErrNone /\ ~interrupt_
            /\ initial_count[t] = n
            => /\ feeds[t] = Chunks(0, n, c)
               /\ Len(feeds[t]) = (n + c - 1) \div c
               /\ \A k \in DOMAIN feeds[t] :
                    feeds[t][k] = <<(k - 1) * c, Min(k * c, n)>>
               /\ samples_decoded = n

\* C8 witness: such a run at its end, after three feed calls, the last one
\* shorter than a chunk or not.
C8_Witness ==
    \E t \in ThreadIds :
        /\ pc[t] = "final" /\ error_message = ErrNone /\ ~interrupt_
        /\ initial_count[t] = seg_count[segment_]
        /\ Len(feeds[t]) >= 2
        /\ Len(insts[t]) = 2

\* C9: when a feed call fails the error message is set, samples_decoded()
\* is where the failed chunk began (the end of the last successful chunk,
\* 0 for the first), and from then on the run makes no feed call and
\* samples_decoded() does not move, whatever arrives.
C9_FeedFailureStops ==
    [][/\ \A t \in ThreadIds :
            pc'[t] = "final" /\ error_message' = ErrFeed =>
                /\ feeds'[t] # <<>>
                /\ samples_decoded' = feeds'[t][Len(feeds'[t])][1]
       /\ error_message = ErrFeed /\ ~ResetStep =>
            /\ error_message' = ErrFeed
            /\ samples_decoded' = samples_decoded
            /\ \A t \in ThreadIds : Len(feeds'[t]) <= Len(feeds[t])
            /\ \A t \in ThreadIds : pc'[t] \in {"final", "destroy", "exited", "none"}
      ]_vars

\* C9 witness: the second feed call of a run failed, samples_decoded() is
\* at the end of the first chunk, and more samples are in the segment than
\* the run has decoded.
C9_Witness ==
    \E t \in ThreadIds :
        /\ pc[t] = "final" /\ error_message = ErrFeed
        /\ Len(feeds[t]) = 2
        /\ samples_decoded_ = feeds[t][1][2]
        /\ samples_decoded_ > 0
        /\ seg_count[segment_] > feeds[t][2][2]

\* C10: when create_decoder_inst fails for a decoder of the stack, the
\* 'failed to create decoder instance' message is recorded, the session is
\* destroyed, the engine lock is free, the thread has ended, no feed call
\* was made and samples_decoded() is 0; nothing of that changes until the
\* next begin_decode.
C10_CreateFailureAborts ==
    error_message = ErrCreate =>
        /\ samples_decoded = 0
        /\ annotation_count_ = 0
        /\ global_srd_mutex_ = 0
        /\ \A t \in ThreadIds :
            /\ pc[t] \in {"none", "exited"}
            /\ pc[t] = "exited" => session[t] = "destroyed"
            /\ feeds[t] = <<>>

\* C10 witness: the instance creation failed in a run over a segment that
\* holds samples.
C10_Witness ==
    \E t \in ThreadIds :
        /\ pc[t] = "exited"
        /\ error_message = ErrCreate
        /\ session[t] = "destroyed"
        /\ seg_count[segment_] > 0
        /\ Len(stack_) = 2

\* the thread is inside wait_for_data's wait loop (lines 291-296)
InWait(t) == pc[t] \in {"wait_eval", "wait_enter", "waiting"}

\* the feed calls of a run cover [0, n) for some n, one range after the
\* other, none empty
Contiguous(f) ==
    /\ f # <<>> => f[1][1] = 0
    /\ \A k \in DOMAIN f : f[k][1] < f[k][2]
    /\ \A k \in 1..(Len(f) - 1) : f[k + 1][1] = f[k][2]

\* a thread in wait_for_data stays there, making no feed call, over every
\* step taken while the wait condition holds; every feed call starts at the
\* samples_decoded_ watermark; the fed ranges of a run are contiguous
WaitsAndFeedsContiguous ==
    [][\A t \in ThreadIds :
        /\ InWait(t) /\ WaitCond => InWait(t)' /\ feeds'[t] = feeds[t]
        /\ pc'[t] = "send" => i'[t] = samples_decoded_'
        /\ Contiguous(feeds'[t])
      ]_vars

\* once sample_count_ is above samples_decoded_ while the thread is in
\* wait_for_data, the thread leaves the wait and is about to feed a chunk
\* that starts at samples_decoded_ and ends within sample_count_, unless the
\* run is interrupted
ResumesFromWatermark ==
    \A t \in ThreadIds :
        (InWait(t) /\ samples_decoded_ < sample_count_ /\ ~interrupt_)
        ~> (\/ interrupt_
            \/ /\ pc[t] = "send"
               /\ i[t] = samples_decoded_
               /\ chunk_end[t] > i[t]
               /\ chunk_end[t] <= sample_count_)

\* C11: wait/resume.  While the run is not interrupted, the frame not
\* complete, the capture not stopped and samples_decoded_ = sample_count_,
\* the decode thread stays in wait_for_data and makes no feed call; when
\* on_data_received has raised sample_count_ the thread eventually wakes
\* and its next feed call starts exactly at the samples_decoded_ watermark;
\* over the whole run the fed ranges are contiguous, no sample skipped or
\* fed twice.  Checked under RunFairSpec.
C11_WaitResume == WaitsAndFeedsContiguous /\ ResumesFromWatermark

\* C11 witness: a thread that had blocked with everything decoded has been
\* woken by on_data_received and feeds from the watermark.
C11_Witness ==
    \E t \in ThreadIds :
        /\ pc[t] = "send"
        /\ i[t] = samples_decoded_
        /\ samples_decoded_ > 0
        /\ abs_start_samplenum[t] = samples_decoded_
        /\ sample_count[t] > samples_decoded_
        /\ ~interrupt_ /\ ~frame_complete_ /\ capture_state = "Running"

\* the run of thread t is over: it has left the feed/wait loop
RunOver(t) == pc[t] \in {"final", "destroy", "exited", "none"}

\* C12: if the capture state becomes Stopped while the decode thread is
\* fully caught up (samples_decoded_ >= sample_count_) and in wait_for_data,
\* blocked already or not, the run eventually ends, even when no
\* on_data_received or on_frame_ended follows.  Runs that begin_decode or
\* the destructor cancels are left aside (their end is C4's matter).
\* Checked under RunFairSpec.
C12_StoppedCaptureEnds ==
    \A t \in ThreadIds :
        (/\ InWait(t)
         /\ capture_state = "Stopped"
         /\ samples_decoded_ >= sample_count_
         /\ ~interrupt_)
        ~> (RunOver(t) \/ interrupt_)

\* the run of thread t is under way: the thread exists and has not left
\* the feed/wait loop
Running(t) == pc[t] \notin {"none", "final", "destroy", "exited"}

\* C13: natural completion.  When on_frame_ended has been delivered during
\* a run (frame_complete_ is set while the thread is at work), the thread
\* eventually leaves the feed/wait loop with samples_decoded_ =
\* sample_count_, unless the run is interrupted or an error is recorded;
\* whatever the interleaving of on_data_received, on_frame_ended and the
\* loop.  Checked under RunFairSpec.
C13_NaturalCompletion ==
    \A t \in ThreadIds :
        (Running(t) /\ frame_complete_)
        ~> (\/ interrupt_
            \/ error_message_ # ErrNone
            \/ pc[t] = "final" /\ samples_decoded_ = sample_count_)

\* C13 witness: the run ended by itself after on_frame_ended, every sample
\* of the segment decoded, some of them after a wait.
C13_Witness ==
    \E t \in ThreadIds :
        /\ pc[t] = "final"
        /\ frame_complete_ /\ ~interrupt_ /\ error_message_ = ErrNone
        /\ capture_state = "Running"
        /\ samples_decoded_ = sample_count_
        /\ samples_decoded_ = seg_count[segment_]
        /\ Len(feeds[t]) >= 2
        /\ initial_count[t] < sample_count_

\* thread t is between srd_session_new and srd_session_destroy
InEngine(t) ==
    IF t = PeerThread THEN pc[t] = "engine" ELSE session[t] = "open"

\* C14: across the DecoderStacks of the process at most one decode thread
\* at a time is between the creation and the destruction of its engine
\* session; a thread in that span holds the engine lock throughout,
\* blocked in wait_for_data or not, and a thread at any of decode_proc's
\* engine calls holds it.  Checked under SharedSpec.
C14_EngineLockSerialisesRuns ==
    /\ Cardinality({t \in AllThreads : InEngine(t)}) <= 1
    /\ \A t \in AllThreads : InEngine(t) => global_srd_mutex_ = t
    /\ \A t \in ThreadIds :
        pc[t] \notin {"none", "start", "exited"} => InEngine(t)
    /\ \A t \in ThreadIds :
        pc[t] \in {"none", "start", "exited"} => global_srd_mutex_ # t

\* C14 witness: the thread of one stack is blocked in wait_for_data, after
\* a feed call, with the engine lock, while the thread of the other stack
\* has been started and waits for the lock.
C14_Witness ==
    \E t \in ThreadIds :
        /\ pc[t] = "waiting"
        /\ feeds[t] # <<>>
        /\ global_srd_mutex_ = t
        /\ pc[PeerThread] = "start"

\* annotation a cannot be classified: its (decoder, class) is not in the
\* class map and its decoder has no decoder-alone row
Unclassifiable(a) ==
    /\ <<a.dec, a.fmt>> \notin DOMAIN class_rows_
    /\ Row(a.dec, 0) \notin DOMAIN rows_

C16_FinalNotification ==
    /\ \A t \in ThreadIds :
        pc[t] \in {"destroy", "exited"} => notified[t] = StoredIn(rows_)
    /\ \A t \in ThreadIds :
        session[t] = "destroyed" => notified[t] = StoredIn(rows_)
    /\ \A t \in ThreadIds : notified[t] <= StoredIn(rows_)

\* C16 witness: the loop was left after a feed error with two annotations
\* stored, the second one not covered by a periodic notification, and the
\* last notification has been emitted before the session is destroyed.
C16_Witness ==
    \E t \in ThreadIds :
        /\ pc[t] = "destroy"
        /\ session[t] = "open"
        /\ error_message_ = ErrFeed
        /\ annotation_count_ = DecodeNotifyPeriod
        /\ notified[t] = StoredIn(rows_)
        /\ StoredIn(rows_) = DecodeNotifyPeriod

\* the rows a caller may ask for: those of every decoder, declared or not
QueryRows == (DOMAIN rows_) \cup {Row(d, 0) : d \in DecoderTypes}

\* the positions in a row store of the annotations that overlap [s, e)
OverlapIdx(store, s, e) ==
    {k \in DOMAIN store : store[k].start < e /\ s < store[k].end}

NumRows(decc) ==
    IF AnnotationRows(decc) = <<>> THEN 1 ELSE Len(AnnotationRows(decc))

\* the number of rows of the shown decoders at the stack positions below k
RECURSIVE RowsBefore(_)
RowsBefore(k) ==
    IF k <= 1 THEN 0
    ELSE RowsBefore(k - 1)
         + (IF stack_[k - 1].shown THEN NumRows(stack_[k - 1].dec) ELSE 0)

\* C18: visible_rows() lists, decoder after decoder in stack order, the
\* rows of the decoders marked visible and nothing for the hidden ones: for
\* a visible decoder without a row schema its decoder-alone row, for one
\* with a schema its declared rows in schema order and no decoder-alone
\* row.  Checked under EditSpec.
C18_VisibleRows ==
    LET vr == get_visible_rows IN
    /\ Len(vr) = RowsBefore(Len(stack_) + 1)
    /\ \A k \in DOMAIN stack_ :
        stack_[k].shown =>
            LET decc == stack_[k].dec IN
            IF AnnotationRows(decc) = <<>>
            THEN vr[RowsBefore(k) + 1] = Row(decc, 0)
            ELSE \A r \in DOMAIN AnnotationRows(decc) :
                    vr[RowsBefore(k) + r] = Row(decc, r)

\* C18 witness: a stack of a hidden decoder without a row schema below a
\* visible decoder that declares two rows.
C18_Witness ==
    /\ Len(stack_) = 2
    /\ ~stack_[1].shown /\ AnnotationRows(stack_[1].dec) = <<>>
    /\ stack_[2].shown /\ Len(AnnotationRows(stack_[2].dec)) = 2
    /\ get_visible_rows = <<Row(stack_[2].dec, 1), Row(stack_[2].dec, 2)>>

\* C19: a run never ends early with work left.  The step by which the
\* decode thread leaves the feed/wait loop ends in a state where
\* interrupt_ is set, or an error message is recorded, or samples_decoded_
\* >= sample_count_ with frame_complete_ set or the capture stopped; and
\* when wait_for_data returns no value in a run that is not interrupted,
\* samples_decoded_ is not below sample_count_.
C19_NoEarlyEnd ==
    [][\A t \in ThreadIds :
        /\ Running(t) /\ RunOver(t)' =>
            \/ interrupt_'
            \/ error_message_' # ErrNone
            \/ /\ samples_decoded_' >= sample_count_'
               /\ frame_complete_' \/ capture_state' = "Stopped"
        /\ pc[t] = "wait_ret" /\ pc'[t] = "final" /\ ~interrupt_ =>
            samples_decoded_ >= sample_count_
      ]_vars

\* C19 witness: wait_for_data is about to return in a run that is not
\* interrupted, with the frame complete, the capture stopped and samples
\* left to decode.
C19_Witness ==
    \E t \in ThreadIds :
        /\ pc[t] = "wait_ret"
        /\ ~interrupt_ /\ error_message_ = ErrNone
        /\ frame_complete_ /\ capture_state = "Stopped"
        /\ samples_decoded_ > 0
        /\ samples_decoded_ < sample_count_

\* the row the claim names for annotation a: the one registered for its
\* (decoder, class) if there is one, else the row keyed by its decoder
RowFor(a) ==
    IF <<a.dec, a.fmt>> \in DOMAIN class_rows_
    THEN class_rows_[<<a.dec, a.fmt>>]
    ELSE Row(a.dec, 0)

\* C20: a feed call during which the engine emits an annotation whose row
\* (the class map's row for its decoder and class if there is one, else
\* the decoder-alone row) is in rows_ appends the annotation to that row's
\* store, leaves every other row store as it was, adds no row, and counts
\* one annotation.
C20_AppendsToOneRow ==
    [][\A t \in ThreadIds, ok \in BOOLEAN :
        \A anns \in Emissions(t) :
            srd_session_send(t, anns, ok) /\ anns # <<>>
            /\ RowFor(anns[1]) \in DOMAIN rows_
            => /\ DOMAIN rows_' = DOMAIN rows_
               /\ rows_'[RowFor(anns[1])] = Append(rows_[RowFor(anns[1])], anns[1])
               /\ \A r \in DOMAIN rows_ :
                    r # RowFor(anns[1]) => rows_'[r] = rows_[r]
               /\ annotation_count_' = annotation_count_ + 1
      ]_vars

\* C20 witness: after a feed call the decoder-alone row of one decoder and
\* the class-mapped row of another each hold an annotation, and a third
\* row holds none.
C20_Witness ==
    \E t \in ThreadIds :
        /\ pc[t] = "commit"
        /\ \E r \in DOMAIN rows_ :
            r[2] = 0 /\ rows_[r] # <<>>
        /\ \E key \in DOMAIN class_rows_ :
            /\ class_rows_[key] \in DOMAIN rows_
            /\ rows_[class_rows_[key]] # <<>>
            /\ rows_[class_rows_[key]][1].fmt = key[2]
        /\ \E r \in DOMAIN rows_ : rows_[r] = <<>>

\* C21: the annotation callback emits new_annotations() exactly on the
\* callbacks after which the number of annotations stored in the run is a
\* positive multiple of DecodeNotifyPeriod (so none before that many are
\* stored).  A callback's notification shows as a change of notified[t]
\* during the feed call.
C21_NotifyEveryPeriod ==
    [][\A t \in ThreadIds, ok \in BOOLEAN :
        \A anns \in Emissions(t) :
            srd_session_send(t, anns, ok) /\ anns # <<>>
            /\ RowFor(anns[1]) \in DOMAIN rows_
            => (notified'[t] # notified[t]
                <=> /\ annotation_count_' > 0
                    /\ annotation_count_' % DecodeNotifyPeriod = 0)
      ]_vars

\* C22: output-lock discipline.  Every write of samples_decoded_,
\* error_message_, rows_, class_rows_, the row stores and the annotation
\* counter is made with output_mutex_ held, so none of them changes while
\* a reader holds output_mutex_.  Checked under ReaderSpec.
C22_OutputLockDiscipline ==
    [][mainPc = "reading" /\ mainPc' = "reading" =>
        /\ samples_decoded_' = samples_decoded_
        /\ error_message_' = error_message_
        /\ rows_' = rows_
        /\ class_rows_' = class_rows_
        /\ annotation_count_' = annotation_count_
      ]_vars

\* C23: input-lock discipline.  Every read and write of sample_count_,
\* frame_complete_ and interrupt_ is made with input_mutex_ held, so none
\* of the three changes while the decode thread holds input_mutex_ inside
\* wait_for_data (between its test of the wait condition and the wait, and
\* between the wake-up and its reading of the fields).
C23_InputLockDiscipline ==
    [][~InputMutexFree =>
        /\ interrupt_' = interrupt_
        /\ sample_count_' = sample_count_
        /\ frame_complete_' = frame_complete_
      ]_vars

\* the rows the decoders of a stack call for: the decoder-alone row of a
\* decoder without a row list, one row per declared annotation row otherwise
ExpectedRows(stack) ==
    {Row(stack[k].dec, 0) :
        k \in {j \in DOMAIN stack : AnnotationRows(stack[j].dec) = <<>>}}
    \cup UNION {{Row(stack[k].dec, r) : r \in DOMAIN AnnotationRows(stack[k].dec)} :
                    k \in DOMAIN stack}

\* C24: every begin_decode that passes the channel check rebuilds the row
\* index from scratch, before the thread starts: the rows are exactly those
\* the stacked decoders call for, all empty, and every (decoder, class)
\* mapping points to a row of the index; no other step changes the set of
\* rows or the class mappings (the decode thread only appends annotations).
C24_RowIndexRebuilt ==
    [][/\ (ResetStep /\ HaveRequiredChannels(stack_)) =>
            /\ DOMAIN rows_' = ExpectedRows(stack_)
            /\ NoAnnotations(rows_')
            /\ \A key \in DOMAIN class_rows_' :
                    /\ class_rows_'[key] \in DOMAIN rows_'
                    /\ class_rows_'[key][1] = key[1]
                    /\ key[2] \in AnnotationRows(key[1])[class_rows_'[key][2]]
       /\ ~ResetStep =>
            /\ DOMAIN rows_' = DOMAIN rows_
            /\ class_rows_' = class_rows_
            /\ \A key \in DOMAIN class_rows_ : class_rows_[key] \in DOMAIN rows_
      ]_vars

\* a run over a stack of a decoder without a row list and one with two
\* rows has stored an annotation in the rebuilt index
C24_Witness ==
    /\ \E t \in ThreadIds : pc[t] = "commit"
    /\ Cardinality(DOMAIN rows_) = 3
    /\ DOMAIN class_rows_ # {}
    /\ ~NoAnnotations(rows_)

\* s is a prefix of u
IsPrefix(s, u) == Len(s) <= Len(u) /\ SubSeq(u, 1, Len(s)) = s

\* C25: row stores are append-only within a run.  Every step that is not
\* the reset of a begin_decode keeps every row and leaves its store a
\* prefix of the store after the step, a failing feed and a cancellation
\* included; and a range query over all samples returns the whole store of
\* a row, also once the run has ended.
C25_AppendOnly ==
    [][/\ ~ResetStep =>
            \A r \in DOMAIN rows_ :
                r \in DOMAIN rows_' /\ IsPrefix(rows_[r], rows_'[r])
       /\ \A r \in DOMAIN rows_ :
            get_annotation_subset(<<>>, r, 0, MaxSamples) = rows_[r]
      ]_vars

\* a run that stored two annotations in one row has ended on a feed error
C25_Witness ==
    /\ error_message_ = ErrFeed
    /\ \E t \in ThreadIds : pc[t] = "exited"
    /\ \E r \in DOMAIN rows_ : Len(rows_[r]) = 2

\* C26: in every reachable state the annotations of each row store are in
\* non-decreasing order of start sample, for every stack, stacks that hold
\* the same decoder more than once included.  (In StackedSpec every
\* instance emits at most one annotation per feed, inside the chunk fed, so
\* each instance emits in non-decreasing order of start sample.)
C26_RowsSortedByStart ==
    \A r \in DOMAIN rows_ :
        \A m, n \in DOMAIN rows_[r] :
            m <= n => rows_[r][m].start <= rows_[r][n].start

\* C27: at most one error is recorded per run and the first wins.  Once
\* error_message() is non-empty no step changes it but the reset of the
\* next begin_decode; and it becomes non-empty only by the channel check
\* of begin_decode, a failed creation of a decoder instance or a failed
\* feed, so it is empty after a run that hit none of the three.
C27_FirstErrorWins ==
    [][/\ (error_message # ErrNone /\ ~ResetStep) =>
            error_message_' = error_message_
       /\ (error_message_' # error_message /\ error_message_' # ErrNone) =>
            \/ /\ ResetStep /\ ~HaveRequiredChannels(stack_)
               /\ error_message_' = ErrChannels
            \/ /\ \E t \in ThreadIds : dp_create(t)
               /\ error_message_' = ErrCreate
            \/ /\ \E t \in ThreadIds : \E anns \in Emissions(t) :
                        srd_session_send(t, anns, FALSE)
               /\ error_message_' = ErrFeed
       /\ error_message_' \in {ErrNone, ErrChannels, ErrCreate, ErrFeed}
      ]_vars

\* a run ended on a creation failure, and samples arrived after it
C27_Witness ==
    /\ error_message = ErrCreate
    /\ \E t \in ThreadIds : pc[t] = "exited"
    /\ sample_count_ > 0

\* the decode thread is at a point from which its next step tests
\* interrupt_, or is inside a feed call or its progress update
ObservesInterrupt(t) ==
    pc[t] \in {"loop", "send", "commit", "wait_eval", "wait_ret"}

\* with interrupt_ set: no thread starts a feed call, none enters the
\* blocking branch of wait_for_data, and samples_decoded_ moves only by
\* the progress update of the feed in flight, by one chunk at most
NoNewFeedOnceInterrupted ==
    [][interrupt_ =>
        /\ \A t \in ThreadIds :
            /\ pc[t] # "send" => pc'[t] # "send"
            /\ pc[t] \notin {"send", "commit"} => pc'[t] # "commit"
            /\ pc[t] # "wait_enter" => pc'[t] # "wait_enter"
            /\ pc[t] = "loop" => pc'[t] \in {"loop", "wait_eval"}
            /\ pc[t] = "wait_eval" => pc'[t] \in {"wait_eval", "wait_ret"}
            /\ pc[t] = "wait_ret" => pc'[t] \in {"wait_ret", "final"}
        /\ (samples_decoded_' # samples_decoded_ /\ ~ResetStep
                /\ ~destructor_joined) =>
            /\ \E t \in ThreadIds : pc[t] = "commit" /\ pc'[t] = "loop"
            /\ samples_decoded_' <= samples_decoded_ + ChunkSampleCount
      ]_vars

\* C28: cancellation is cooperative and bounded.  Once interrupt_ is set
\* the thread starts no further feed call and does not enter the wait;
\* only the feed in flight completes and samples_decoded_ advances by at
\* most one chunk; and a thread that tests the flag goes on to the final
\* notification and the teardown.
C28_BoundedCancellation ==
    /\ NoNewFeedOnceInterrupted
    /\ \A t \in ThreadIds :
        (interrupt_ /\ ObservesInterrupt(t)) ~> pc[t] = "exited"

\* interrupt_ was set during a feed call, which has returned
C28_Witness ==
    /\ interrupt_
    /\ mainPc = "bd_join"
    /\ \E t \in ThreadIds : pc[t] = "commit" /\ samples_decoded_ < chunk_end[t]

\* C29: the decoders instantiated in the engine for a run are exactly the
\* decoders for which begin_decode built rows for that run, push() and
\* remove() during the start of the thread notwithstanding: once the
\* instances of a run are created, the decoders of the rows and the
\* decoders of the instances are the same.
C29_InstancesMatchRows ==
    \A t \in ThreadIds :
        pc[t] \in {"init_count", "loop", "send", "commit", "wait_eval",
                   "wait_enter", "waiting", "wait_ret", "final"}
        => {r[1] : r \in DOMAIN rows_} = {insts[t][k] : k \in DOMAIN insts[t]}

\* C30: no deadlock between two DecoderStacks that share the engine lock
\* and are driven by one caller thread: a begin_decode of the peer that
\* joins the peer's decode thread eventually returns, so that the caller
\* can deliver on_data_received and on_frame_ended to the other stack.
\* Checked under SharedFairSpec.
C30_NoCrossStackDeadlock ==
    (/\ mainPc = "peer_join"
     /\ pc[PeerThread] = "start"
     /\ \E t \in ThreadIds : pc[t] = "waiting" /\ global_srd_mutex_ = t)
    ~> (mainPc = "idle")

====
